---- MODULE Spec2Model ----
(***************************************************************************)
(* Model of agent/myagent.py: the entrypoint that connects and starts an   *)
(* AgentSession with a SimpleAgent, the metrics listeners SimpleAgent      *)
(* registers on its STT, LLM, TTS and VAD objects, and the coroutines      *)
(* those listeners schedule, each of which formats one log record.         *)
(*                                                                         *)
(* The listeners schedule their coroutines with asyncio.create_task.  The  *)
(* asyncio event loop keeps scheduled tasks in a FIFO ready queue, and a   *)
(* coroutine without an await in its body runs to completion in one step.  *)
(*                                                                         *)
(* Model of scripts/validate-docs.py: main, DocumentationValidator and its *)
(* checks over a documentation tree (DocsSpec), and the cross-reference    *)
(* check with its link targets in detail (LinksSpec).                      *)
(***************************************************************************)
EXTENDS Integers, Sequences, FiniteSets, TLC

\* ------------------------------------------------------------------ bounds

\* Number of metrics events the stages emit in one run.
MaxReports == 2

\* Correlation ids (request_id, or speech_id for end-of-utterance metrics).
RequestIds == {1, 2}

\* ------------------------------------------------------------------ values

\* A Python value: a tag and a payload.  Text values carry the tag of what
\* they spell: "str_none" is the text None, "str_digits" the decimal text of
\* a number, "str_iso" an ISO-8601 date-time text, "str_other" any other text.
None == [t |-> "none", v |-> 0]
Num(n) == [t |-> "num", v |-> n]
DateTime(n) == [t |-> "datetime", v |-> n]
Exc(n) == [t |-> "exc", v |-> n]
Text(kind, n) == [t |-> kind, v |-> n]

\* The marker of a raised AttributeError.
AttributeError == [t |-> "AttributeError", v |-> 0]

\* isinstance(x, (int, float))
IsNumber(x) == x.t = "num"

\* Python truthiness: None, 0 and the empty string are falsy.
Truthy(x) ==
  CASE x.t = "none" -> FALSE
    [] x.t = "str_empty" -> FALSE
    [] x.t = "num" -> x.v # 0
    [] OTHER -> TRUE

\* str(x), which an f-string field applies to its value.
Str(x) ==
  CASE x.t = "none" -> Text("str_none", 0)
    [] x.t = "num" -> Text("str_digits", x.v)
    [] x.t = "datetime" -> Text("str_other", x.v)
    [] x.t = "exc" -> Text("str_other", x.v)
    [] OTHER -> x

\* x.isoformat(): only a datetime has the method.
IsoFormat(x) ==
  IF x.t = "datetime" THEN Text("str_iso", x.v) ELSE AttributeError

\* ------------------------------------------------------------ metrics objects

\* What a metrics object looks like: every attribute set and the timestamp a
\* number ("full"); the attributes the handlers read with getattr missing and
\* the timestamp None ("sparse"); the label attribute missing ("nolabel"); the
\* timestamp a datetime ("tsDatetime") or an ISO-8601 string ("tsIsoString").
Shapes == {"full", "sparse", "nolabel", "tsDatetime", "tsIsoString"}

\* Attributes each handler reads as metrics.<name>.
DirectAttrs(stage) ==
  IF stage = "eou" THEN {"type", "label", "timestamp"}
  ELSE {"type", "label", "request_id", "timestamp", "duration"}

\* Attributes each handler reads as getattr(metrics, <name>, None).
GetattrAttrs(stage) ==
  CASE stage = "llm" -> {"ttft", "cancelled", "completion_tokens", "prompt_tokens",
                         "total_tokens", "tokens_per_second"}
    [] stage = "stt" -> {"speech_id", "error", "streamed", "audio_duration"}
    [] stage = "eou" -> {"end_of_utterance_delay", "transcription_delay", "speech_id", "error"}
    [] stage = "tts" -> {"ttfb", "audio_duration", "cancelled", "characters_count",
                         "streamed", "speech_id", "error"}

\* The attributes a metrics object of the shape has.
AttrNames(stage, shape) ==
  CASE shape = "sparse" -> DirectAttrs(stage)
    [] shape = "nolabel" -> (DirectAttrs(stage) \cup GetattrAttrs(stage)) \ {"label"}
    [] OTHER -> DirectAttrs(stage) \cup GetattrAttrs(stage)

\* The value of attribute a of a metrics object (a in AttrNames).
AttrValue(m, a) ==
  CASE a = "timestamp" ->
         (CASE m.shape = "tsDatetime" -> DateTime(m.n)
            [] m.shape = "tsIsoString" -> Text("str_iso", m.n)
            [] m.shape = "sparse" -> None
            [] OTHER -> Num(m.n))
    [] a \in {"request_id", "speech_id"} -> Num(m.id)
    [] a = "error" -> Exc(m.n)
    [] a \in {"type", "label"} -> Text("str_other", 0)
    [] OTHER -> Num(m.n)

HasAttr(m, a) == a \in AttrNames(m.stage, m.shape)

\* getattr(metrics, a, None)
GetAttr(m, a) == IF HasAttr(m, a) THEN AttrValue(m, a) ELSE None

\* The metrics objects a stage can emit as its n-th report.
Metrics(stage, n) ==
  {[stage |-> stage, id |-> i, shape |-> s, n |-> n] : i \in RequestIds, s \in Shapes}

VadEvent(n) == [stage |-> "vad", id |-> 0, shape |-> "full", n |-> n]

\* ------------------------------------------------------------------ handlers

\* A timestamp expression without the isinstance test.
FormatTimestampNoNumberTest(ts) == IF Truthy(ts) THEN IsoFormat(ts) ELSE None

\* metrics.timestamp if isinstance(metrics.timestamp, (int, float))
\*   else metrics.timestamp.isoformat() if metrics.timestamp else None
FormatTimestamp(ts) ==
  IF IsNumber(ts) THEN ts
  ELSE IF Truthy(ts) THEN IsoFormat(ts)
  ELSE None

\* str(getattr(metrics, 'error', None)) if getattr(metrics, 'error', None) else None
FormatError(m) ==
  IF Truthy(GetAttr(m, "error")) THEN Str(GetAttr(m, "error")) ELSE None

\* The text of one field of the record.
FieldText(m, f) ==
  CASE f = "timestamp" -> Str(FormatTimestamp(AttrValue(m, "timestamp")))
    [] f = "error" -> Str(FormatError(m))
    [] f \in DirectAttrs(m.stage) -> Str(AttrValue(m, f))
    [] OTHER -> Str(GetAttr(m, f))

\* Evaluating the f-string: a missing directly-read attribute, or a timestamp
\* without isoformat, raises AttributeError before logger.info is called.
FormatRaises(m, fields) ==
  \/ \E f \in fields \cap DirectAttrs(m.stage) : ~HasAttr(m, f)
  \/ FormatTimestamp(AttrValue(m, "timestamp")) = AttributeError

\* One handler run: either it raises, or it logs one record with the fields.
HandlerRun(prefix, fields, m) ==
  IF FormatRaises(m, fields)
  THEN [raised |-> TRUE, prefix |-> prefix, fields |-> << >>]
  ELSE [raised |-> FALSE, prefix |-> prefix,
        fields |-> [f \in fields |-> FieldText(m, f)]]

on_llm_metrics_collected(m) ==
  HandlerRun("LLM Metrics",
             {"type", "label", "request_id", "timestamp", "duration", "ttft", "cancelled",
              "completion_tokens", "prompt_tokens", "total_tokens", "tokens_per_second"}, m)

on_stt_metrics_collected(m) ==
  HandlerRun("STT Metrics",
             {"type", "label", "request_id", "timestamp", "duration", "speech_id", "error",
              "streamed", "audio_duration"}, m)

on_eou_metrics_collected(m) ==
  HandlerRun("EOU Metrics",
             {"type", "label", "timestamp", "end_of_utterance_delay", "transcription_delay",
              "speech_id", "error"}, m)

on_tts_metrics_collected(m) ==
  HandlerRun("TTS Metrics",
             {"type", "label", "request_id", "timestamp", "ttfb", "duration",
              "audio_duration", "cancelled", "characters_count", "streamed", "speech_id",
              "error"}, m)

\* The coroutine a task runs.
RunCoroutine(task) ==
  CASE task.coro = "on_llm_metrics_collected" -> on_llm_metrics_collected(task.m)
    [] task.coro = "on_stt_metrics_collected" -> on_stt_metrics_collected(task.m)
    [] task.coro = "on_eou_metrics_collected" -> on_eou_metrics_collected(task.m)
    [] task.coro = "on_tts_metrics_collected" -> on_tts_metrics_collected(task.m)

\* ------------------------------------------------------------------ state

VARIABLES
  pc,        \* position of entrypoint: "start", "connected", "constructed", "started"
  handlers,  \* listeners registered by SimpleAgent.__init__: <<emitter, event>> -> coroutine
  tasks,     \* the event loop's ready queue of tasks created by the listeners
  log,       \* records written by logger.info, in order
  raised,    \* metrics objects whose task ended with an exception, in order
  noops,     \* number of on_vad_event runs
  reported,  \* number of metrics events emitted so far
  \* scripts/validate-docs.py
  vpc,            \* position of main / validate_all
  args,           \* the parsed command line flags
  dirExists,      \* whether the docs directory exists
  docFiles,       \* documentation files that exist, relative to the docs directory
  docMtime,       \* modification time of each documentation file, in seconds
  srcFiles,       \* source files that exist
  srcMtime,       \* modification time of each source file, in seconds
  errors,         \* self.errors
  warnings,       \* self.warnings
  info_messages,  \* self.info_messages
  exited,         \* << >> while running, <<status>> after sys.exit(status)
  mdFiles,        \* markdown files under the docs directory (rglob("*.md"))
  content,        \* the markdown links of each markdown file, in order
  repoFiles,      \* all files of the repository, as paths from its root
  unchecked       \* markdown files check_file_references has not been called on

agentVars == <<pc, handlers, tasks, log, raised, noops, reported>>

docVars == <<vpc, args, dirExists, docFiles, docMtime, srcFiles, srcMtime,
             errors, warnings, info_messages, exited>>

linkVars == <<mdFiles, content, repoFiles, unchecked>>

vars == <<agentVars, docVars, linkVars>>

\* The validator is not running.
DocsIdle ==
  /\ vpc = "idle"
  /\ args = << >>
  /\ dirExists = FALSE
  /\ docFiles = {}
  /\ docMtime = << >>
  /\ srcFiles = {}
  /\ srcMtime = << >>
  /\ errors = << >>
  /\ warnings = << >>
  /\ info_messages = << >>
  /\ exited = << >>

\* No documentation tree is being scanned for links.
LinksIdle ==
  /\ mdFiles = {}
  /\ content = << >>
  /\ repoFiles = {}
  /\ unchecked = {}

\* The agent is not running.
AgentIdle ==
  /\ pc = "idle"
  /\ handlers = {}
  /\ tasks = << >>
  /\ log = << >>
  /\ raised = << >>
  /\ noops = 0
  /\ reported = 0

\* The listeners of SimpleAgent.__init__, by emitter and event.
Listeners ==
  {[emitter |-> "llm", event |-> "metrics_collected", coro |-> "on_llm_metrics_collected"],
   [emitter |-> "stt", event |-> "metrics_collected", coro |-> "on_stt_metrics_collected"],
   [emitter |-> "stt", event |-> "eou_metrics_collected", coro |-> "on_eou_metrics_collected"],
   [emitter |-> "tts", event |-> "metrics_collected", coro |-> "on_tts_metrics_collected"],
   [emitter |-> "vad", event |-> "metrics_collected", coro |-> "on_vad_event"]}

\* A create_task that runs the newest task first.
create_task_lifo(queue, task) == <<task>> \o queue

\* A create_task that discards the task when one is already waiting.
create_task_bounded(queue, task) == IF Len(queue) >= 1 THEN queue ELSE Append(queue, task)

\* asyncio.create_task(coro): the task joins the end of the ready queue and
\* the caller continues at once.
create_task(queue, task) == Append(queue, task)

Init ==
  /\ pc = "start"
  /\ handlers = {}
  /\ tasks = << >>
  /\ log = << >>
  /\ raised = << >>
  /\ noops = 0
  /\ reported = 0
  /\ DocsIdle
  /\ LinksIdle

\* await ctx.connect()
Connect ==
  /\ pc = "start"
  /\ pc' = "connected"
  /\ UNCHANGED <<handlers, tasks, log, raised, noops, reported>>
  /\ UNCHANGED <<docVars, linkVars>>

\* SimpleAgent(): the five listeners are registered.
SimpleAgentInit ==
  /\ pc = "connected"
  /\ handlers' = Listeners
  /\ pc' = "constructed"
  /\ UNCHANGED <<tasks, log, raised, noops, reported>>
  /\ UNCHANGED <<docVars, linkVars>>

\* await session.start(agent=..., room=ctx.room)
SessionStart ==
  /\ pc = "constructed"
  /\ pc' = "started"
  /\ UNCHANGED <<handlers, tasks, log, raised, noops, reported>>
  /\ UNCHANGED <<docVars, linkVars>>

\* A listener called with a metrics object: it creates the task and returns.
MetricsWrapper(l, m) ==
  /\ pc = "started"
  /\ l \in handlers
  /\ reported < MaxReports
  /\ tasks' = create_task(tasks, [coro |-> l.coro, m |-> m])
  /\ reported' = reported + 1
  /\ UNCHANGED <<pc, handlers, log, raised, noops>>
  /\ UNCHANGED <<docVars, linkVars>>

llm_metrics_wrapper ==
  \E l \in Listeners, m \in Metrics("llm", reported + 1) :
    /\ l.coro = "on_llm_metrics_collected"
    /\ MetricsWrapper(l, m)

stt_metrics_wrapper ==
  \E l \in Listeners, m \in Metrics("stt", reported + 1) :
    /\ l.coro = "on_stt_metrics_collected"
    /\ MetricsWrapper(l, m)

eou_metrics_wrapper ==
  \E l \in Listeners, m \in Metrics("eou", reported + 1) :
    /\ l.coro = "on_eou_metrics_collected"
    /\ MetricsWrapper(l, m)

tts_metrics_wrapper ==
  \E l \in Listeners, m \in Metrics("tts", reported + 1) :
    /\ l.coro = "on_tts_metrics_collected"
    /\ MetricsWrapper(l, m)

vad_metrics_wrapper ==
  \E l \in Listeners :
    /\ l.coro = "on_vad_event"
    /\ MetricsWrapper(l, VadEvent(reported + 1))

\* The event loop runs the task at the head of the ready queue: a metrics
\* coroutine that formats and logs its record, or raises.
RunMetricsTask ==
  /\ tasks # << >>
  /\ Head(tasks).coro # "on_vad_event"
  /\ LET r == RunCoroutine(Head(tasks)) IN
       IF r.raised
       THEN /\ raised' = Append(raised, Head(tasks).m)
            /\ log' = log
       ELSE /\ log' = Append(log, [m |-> Head(tasks).m, prefix |-> r.prefix,
                                   fields |-> r.fields])
            /\ raised' = raised
  /\ tasks' = Tail(tasks)
  /\ UNCHANGED <<pc, handlers, noops, reported>>
  /\ UNCHANGED <<docVars, linkVars>>

\* on_vad_event: the body is the expression None.
on_vad_event ==
  /\ tasks # << >>
  /\ Head(tasks).coro = "on_vad_event"
  /\ tasks' = Tail(tasks)
  /\ noops' = noops + 1
  /\ UNCHANGED <<pc, handlers, log, raised, reported>>
  /\ UNCHANGED <<docVars, linkVars>>

Next ==
  \/ Connect
  \/ SimpleAgentInit
  \/ SessionStart
  \/ llm_metrics_wrapper
  \/ stt_metrics_wrapper
  \/ eou_metrics_wrapper
  \/ tts_metrics_wrapper
  \/ vad_metrics_wrapper
  \/ RunMetricsTask
  \/ on_vad_event

Spec == Init /\ [][Next]_vars

\* ------------------------------------------------- scripts/validate-docs.py

\* Number of source files whose state differs from the default one (present,
\* modified at the same second as its documentation file).
MaxStale == 1

\* self.required_files + self.required_service_files
required_files ==
  <<"index.md", "architecture.md", "development-workflow.md", "coding-standards.md",
    "lessons-learned.md">>

required_service_files ==
  <<"services/agent.md", "services/whisper.md", "services/ollama.md",
    "services/kokoro.md", "services/livekit.md", "services/frontend.md">>

\* self.source_to_doc_mapping.items(), in insertion order.  The dict literal
\* names "livekit/Dockerfile" twice: the key keeps its first position and the
\* last value, services/livekit.md.
source_to_doc_mapping ==
  <<<<"agent/myagent.py", "services/agent.md">>,
    <<"agent/Dockerfile", "services/agent.md">>,
    <<"agent/requirements.txt", "services/agent.md">>,
    <<"whisper/Dockerfile", "services/whisper.md">>,
    <<"ollama/Dockerfile", "services/ollama.md">>,
    <<"ollama/entrypoint.sh", "services/ollama.md">>,
    <<"livekit/Dockerfile", "services/livekit.md">>,
    <<"voice-assistant-frontend/package.json", "services/frontend.md">>,
    <<"voice-assistant-frontend/Dockerfile", "services/frontend.md">>,
    <<"voice-assistant-frontend/app/layout.tsx", "services/frontend.md">>,
    <<"voice-assistant-frontend/app/page.tsx", "services/frontend.md">>,
    <<"voice-assistant-frontend/next.config.mjs", "services/frontend.md">>,
    <<"voice-assistant-frontend/tsconfig.json", "services/frontend.md">>,
    <<"docker-compose.yml", "architecture.md">>,
    <<"README.md", "index.md">>>>

Range(seq) == {seq[i] : i \in 1..Len(seq)}

SourceFiles == {source_to_doc_mapping[i][1] : i \in 1..Len(source_to_doc_mapping)}

RequiredDocs == Range(required_files) \cup Range(required_service_files)

\* The command lines: every combination of the four flags.
ArgSets ==
  [strict : BOOLEAN, check_timestamps : BOOLEAN, strict_timestamps : BOOLEAN,
   update_timestamps : BOOLEAN]

\* The documentation files missing from the tree in the runs explored.
MissingDocChoices == {{}, {"services/agent.md"}, {"lessons-learned.md"}}

\* The source files whose state varies in the runs explored, and the seconds
\* by which such a file is newer than its documentation file: an hour older,
\* a second newer, exactly seven days newer, seven days and a second newer.
WatchedSources == {"agent/myagent.py", "agent/Dockerfile", "livekit/Dockerfile", "README.md"}

SourceOffsets == {-3600, 1, 604800, 604801}

\* st_mtime of the documentation files before the run, and time.time() in
\* update_documentation_timestamps.
DocTime == 1000000

CurrentTime == 2000000

\* A message of self.errors, self.warnings or self.info_messages: its kind
\* and the file names its text holds.
Message(kind, src, doc) == [kind |-> kind, src |-> src, doc |-> doc]

\* abs(time_diff) / (24 * 3600) > 7, on whole seconds.
DaysOldOverSevenInclusive(time_diff) == -time_diff >= 7 * (24 * 3600)

DaysOldOverSeven(time_diff) == -time_diff > 7 * (24 * 3600)

\* The loop body of validate_timestamps for the i-th pair: acc holds the
\* errors, warnings, info messages and timestamp_issues so far.
TimestampPair(acc, i, strict_timestamps) ==
  LET source_file == source_to_doc_mapping[i][1]
      doc_file == source_to_doc_mapping[i][2]
  IN
  IF source_file \notin srcFiles
  THEN [acc EXCEPT !.warnings = Append(@, Message("Source file not found", source_file, ""))]
  ELSE IF doc_file \notin docFiles
  THEN [acc EXCEPT !.errors = Append(@, Message("Documentation file not found", "", doc_file))]
  ELSE
    LET time_diff == docMtime[doc_file] - srcMtime[source_file] IN
    IF time_diff < 0
    THEN LET issue == <<source_file, doc_file, time_diff>> IN
         IF strict_timestamps \/ DaysOldOverSeven(time_diff)
         THEN [acc EXCEPT
                 !.errors = Append(@, Message("Documentation severely outdated",
                                              source_file, doc_file)),
                 !.issues = Append(@, issue)]
         ELSE [acc EXCEPT
                 !.warnings = Append(@, Message("Documentation outdated",
                                                source_file, doc_file)),
                 !.issues = Append(@, issue)]
    ELSE IF time_diff < 3600
    THEN [acc EXCEPT !.info = Append(@, Message("Documentation current: up to date",
                                                source_file, doc_file))]
    ELSE [acc EXCEPT !.info = Append(@, Message("Documentation current: newer",
                                                source_file, doc_file))]

\* The loop of validate_timestamps over pairs 1..i.
RECURSIVE TimestampLoop(_, _, _)
TimestampLoop(acc, i, strict_timestamps) ==
  IF i = 0 THEN acc
  ELSE TimestampPair(TimestampLoop(acc, i - 1, strict_timestamps), i, strict_timestamps)

\* An update condition that does not look at self.errors.
UpdateRequestedOnly(update_timestamps, errs) == update_timestamps

\* if self.update_timestamps and not self.errors
UpdateRequested(update_timestamps, errs) == update_timestamps /\ errs = << >>

\* update_documentation_timestamps over issues 1..i; os.utime fails on the
\* documentation files in failing and sets the others' times to CurrentTime.
RECURSIVE UpdateLoop(_, _, _, _)
UpdateLoop(acc, issues, i, failing) ==
  IF i = 0 THEN acc
  ELSE
    LET prev == UpdateLoop(acc, issues, i - 1, failing)
        doc_file == issues[i][2]
    IN
    IF doc_file \in failing
    THEN [prev EXCEPT !.warnings = Append(@, Message("Failed to update timestamp", "", doc_file))]
    ELSE [prev EXCEPT !.mtime = [@ EXCEPT ![doc_file] = CurrentTime],
                      !.info = Append(@, Message("Updated timestamp", "", doc_file))]

\* An exit status that ignores --strict.
ExitStatusIgnoringStrict(success, strict, warns) == IF ~success THEN 1 ELSE 0

\* The end of main: sys.exit(1) if not success, sys.exit(1) if args.strict and
\* validator.warnings, else sys.exit(0).
ExitStatus(success, strict, warns) ==
  IF ~success THEN 1
  ELSE IF strict /\ warns # << >> THEN 1
  ELSE 0

\* The file system and command line of a validator run.
DocsInit ==
  /\ AgentIdle
  /\ LinksIdle
  /\ vpc = "main"
  /\ args \in ArgSets
  /\ dirExists \in BOOLEAN
  /\ \E missing \in MissingDocChoices : docFiles = RequiredDocs \ missing
  /\ docMtime = [d \in RequiredDocs |-> DocTime]
  /\ \E stale \in SUBSET WatchedSources :
       /\ Cardinality(stale) <= MaxStale
       /\ \E absent \in SUBSET stale :
            /\ srcFiles = SourceFiles \ absent
            /\ \E off \in [stale \ absent -> SourceOffsets] :
                 srcMtime = [f \in SourceFiles |->
                               IF f \in stale \ absent THEN DocTime + off[f] ELSE DocTime]
  /\ errors = << >>
  /\ warnings = << >>
  /\ info_messages = << >>
  /\ exited = << >>

\* main: if not Path(args.docs_dir).exists(): sys.exit(1)
Main_CheckDocsDir ==
  /\ vpc = "main"
  /\ IF dirExists
     THEN vpc' = "args" /\ exited' = exited
     ELSE vpc' = "exited" /\ exited' = <<1>>
  /\ UNCHANGED <<args, dirExists, docFiles, docMtime, srcFiles, srcMtime,
                 errors, warnings, info_messages>>
  /\ UNCHANGED <<agentVars, linkVars>>

\* main: if args.update_timestamps and not args.check_timestamps: sys.exit(1)
Main_CheckArguments ==
  /\ vpc = "args"
  /\ IF args.update_timestamps /\ ~args.check_timestamps
     THEN vpc' = "exited" /\ exited' = <<1>>
     ELSE vpc' = "required" /\ exited' = exited
  /\ UNCHANGED <<args, dirExists, docFiles, docMtime, srcFiles, srcMtime,
                 errors, warnings, info_messages>>
  /\ UNCHANGED <<agentVars, linkVars>>

\* The errors check_required_files appends for files 1..i of all_required.
RECURSIVE MissingRequired(_, _)
MissingRequired(all_required, i) ==
  IF i = 0 THEN << >>
  ELSE IF all_required[i] \in docFiles
       THEN MissingRequired(all_required, i - 1)
       ELSE Append(MissingRequired(all_required, i - 1),
                   Message("Missing required file", "", all_required[i]))

check_required_files ==
  /\ vpc = "required"
  /\ LET all_required == required_files \o required_service_files IN
       errors' = errors \o MissingRequired(all_required, Len(all_required))
  /\ vpc' = "crossrefs"
  /\ UNCHANGED <<args, dirExists, docFiles, docMtime, srcFiles, srcMtime,
                 warnings, info_messages, exited>>
  /\ UNCHANGED <<agentVars, linkVars>>

\* validate_cross_references within validate_all: the links of the tree are
\* not part of this specification, the check finds no invalid reference or one.
Docs_validate_cross_references ==
  /\ vpc = "crossrefs"
  /\ \/ errors' = errors
     \/ errors' = Append(errors, Message("Invalid reference", "", "index.md"))
  /\ vpc' = "links"
  /\ UNCHANGED <<args, dirExists, docFiles, docMtime, srcFiles, srcMtime,
                 warnings, info_messages, exited>>
  /\ UNCHANGED <<agentVars, linkVars>>

\* validate_markdown_links: a file cannot be read (an error), a line has a
\* link issue (a warning), or neither.
validate_markdown_links ==
  /\ vpc = "links"
  /\ \/ errors' = errors /\ warnings' = warnings
     \/ errors' = Append(errors, Message("Could not read", "", "index.md")) /\ warnings' = warnings
     \/ errors' = errors /\ warnings' = Append(warnings, Message("Empty link text", "", "index.md"))
  /\ vpc' = "docstrings"
  /\ UNCHANGED <<args, dirExists, docFiles, docMtime, srcFiles, srcMtime,
                 info_messages, exited>>
  /\ UNCHANGED <<agentVars, linkVars>>

\* validate_docstring_standards: only warnings.
validate_docstring_standards ==
  /\ vpc = "docstrings"
  /\ \/ warnings' = warnings
     \/ warnings' = Append(warnings, Message("may be missing docstring", "agent/myagent.py", ""))
  /\ vpc' = "timestamps"
  /\ UNCHANGED <<args, dirExists, docFiles, docMtime, srcFiles, srcMtime,
                 errors, info_messages, exited>>
  /\ UNCHANGED <<agentVars, linkVars>>

\* if self.check_timestamps: self.validate_timestamps(), with the update of
\* the timestamps at its end.
validate_timestamps ==
  /\ vpc = "timestamps"
  /\ args.check_timestamps
  /\ LET scan == TimestampLoop([errors |-> errors, warnings |-> warnings,
                                info |-> info_messages, issues |-> << >>],
                               Len(source_to_doc_mapping), args.strict_timestamps)
     IN
     IF UpdateRequested(args.update_timestamps, scan.errors)
     THEN \E failing \in SUBSET {scan.issues[i][2] : i \in 1..Len(scan.issues)} :
            LET upd == UpdateLoop([warnings |-> scan.warnings, info |-> scan.info,
                                   mtime |-> docMtime],
                                  scan.issues, Len(scan.issues), failing)
            IN /\ errors' = scan.errors
               /\ warnings' = upd.warnings
               /\ info_messages' = upd.info
               /\ docMtime' = upd.mtime
     ELSE /\ errors' = scan.errors
          /\ warnings' = scan.warnings
          /\ info_messages' = scan.info
          /\ docMtime' = docMtime
  /\ vpc' = "results"
  /\ UNCHANGED <<args, dirExists, docFiles, srcFiles, srcMtime, exited>>
  /\ UNCHANGED <<agentVars, linkVars>>

\* validate_all without --check-timestamps.
SkipTimestamps ==
  /\ vpc = "timestamps"
  /\ ~args.check_timestamps
  /\ vpc' = "results"
  /\ UNCHANGED <<args, dirExists, docFiles, docMtime, srcFiles, srcMtime,
                 errors, warnings, info_messages, exited>>
  /\ UNCHANGED <<agentVars, linkVars>>

\* print_results, return len(self.errors) == 0, and main's sys.exit.
Main_Exit ==
  /\ vpc = "results"
  /\ exited' = <<ExitStatus(Len(errors) = 0, args.strict, warnings)>>
  /\ vpc' = "exited"
  /\ UNCHANGED <<args, dirExists, docFiles, docMtime, srcFiles, srcMtime,
                 errors, warnings, info_messages>>
  /\ UNCHANGED <<agentVars, linkVars>>

DocsNext ==
  \/ Main_CheckDocsDir
  \/ Main_CheckArguments
  \/ check_required_files
  \/ Docs_validate_cross_references
  \/ validate_markdown_links
  \/ validate_docstring_standards
  \/ validate_timestamps
  \/ SkipTimestamps
  \/ Main_Exit

DocsSpec == DocsInit /\ [][DocsNext]_vars

\* ------------------------------------ validate-docs.py: cross-references

\* Number of markdown links in the file that holds links.
MaxLinks == 2

\* A relative path: its directory segments, and its file name as a stem with
\* or without the suffix .md.
Path(dir, stem, md) == [dir |-> dir, stem |-> stem, md |-> md]

\* The markdown files a documentation tree may hold, relative to the docs
\* directory, and the files the repository may hold outside it.
DocTree ==
  {Path(<< >>, "index", TRUE), Path(<< >>, "architecture", TRUE),
   Path(<<"services">>, "agent", TRUE)}

OutsideFiles == {Path(<< >>, "README", TRUE)}

\* The path from the repository root of a file given relative to docs.
InDocs(f) == Path(<<"docs">> \o f.dir, f.stem, f.md)

\* A markdown link [text](link_target): whether the text is non-empty, the
\* prefix of link_target, the path in it, and whether "#anchor" follows.
Link(text, prefix, target, anchor) ==
  [text |-> text, prefix |-> prefix, target |-> target, anchor |-> anchor]

\* The links explored: a bare file name, a path from the docs directory, a
\* path out of the docs directory, services/index.md, a name without suffix,
\* a name of no file, one with an anchor, one with empty text, an external one.
Links ==
  {Link(TRUE, "", Path(<< >>, "agent", TRUE), FALSE),
   Link(TRUE, "", Path(<<"services">>, "agent", TRUE), FALSE),
   Link(TRUE, "", Path(<<"..">>, "README", TRUE), FALSE),
   Link(TRUE, "", Path(<<"services">>, "index", TRUE), FALSE),
   Link(TRUE, "", Path(<< >>, "architecture", FALSE), FALSE),
   Link(TRUE, "", Path(<< >>, "missing", TRUE), FALSE),
   Link(TRUE, "", Path(<< >>, "index", TRUE), TRUE),
   Link(FALSE, "", Path(<< >>, "missing", TRUE), FALSE),
   Link(TRUE, "https://", Path(<< >>, "missing", TRUE), FALSE)}

\* Sequences over S of length at most n.
SeqsUpTo(S, n) == UNION {[1..k -> S] : k \in 0..n}

\* valid_targets: for each markdown file its path from docs, that path
\* without suffix, its name and its name without suffix.
ValidTargets(md_files) ==
  UNION {{f, Path(f.dir, f.stem, FALSE), Path(<< >>, f.stem, TRUE),
          Path(<< >>, f.stem, FALSE)} : f \in md_files}

\* re.findall(link_pattern, content): the pattern needs a non-empty text.
MatchesLinkPattern(link) == link.text

\* link_target.startswith(("http://", "https://", "mailto:", "#"))
IsExternal(link) == link.prefix \in {"http://", "https://", "mailto:", "#"}

\* link_target.split("#")[0].strip()
CleanTarget(link) == link.target

\* is_valid_target: a direct match, a target that starts with ../, a match
\* relative to the directory of the source file, a match with .md appended,
\* or services/index.md.
is_valid_target(target, source_file, valid_targets) ==
  \/ target \in valid_targets
  \/ (target.dir # << >> /\ target.dir[1] = "..")
  \/ /\ source_file.dir # << >>
     /\ Path(source_file.dir \o target.dir, target.stem, target.md) \in valid_targets
  \/ /\ ~target.md
     /\ Path(target.dir, target.stem, TRUE) \in valid_targets
  \/ target = Path(<<"services">>, "index", TRUE)

\* The errors check_file_references appends for links 1..i of the file.
RECURSIVE InvalidReferences(_, _, _, _)
InvalidReferences(file_path, links, i, valid_targets) ==
  IF i = 0 THEN << >>
  ELSE
    LET before == InvalidReferences(file_path, links, i - 1, valid_targets)
        link == links[i]
    IN
    IF ~MatchesLinkPattern(link) \/ IsExternal(link) THEN before
    ELSE IF is_valid_target(CleanTarget(link), file_path, valid_targets) THEN before
    ELSE Append(before, Message("Invalid reference", file_path, link))

\* A documentation tree with links in one of its files.
LinksInit ==
  /\ AgentIdle
  /\ vpc = "crossrefs"
  /\ args = << >>
  /\ dirExists = TRUE
  /\ docFiles = {}
  /\ docMtime = << >>
  /\ srcFiles = {}
  /\ srcMtime = << >>
  /\ errors = << >>
  /\ warnings = << >>
  /\ info_messages = << >>
  /\ exited = << >>
  /\ mdFiles \in SUBSET DocTree
  /\ \E outside \in SUBSET OutsideFiles :
       repoFiles = {InDocs(f) : f \in mdFiles} \cup outside
  /\ \E holder \in mdFiles, links \in SeqsUpTo(Links, MaxLinks) :
       content = [f \in mdFiles |-> IF f = holder THEN links ELSE << >>]
  /\ unchecked = {}

\* validate_cross_references: md_files = list(self.docs_dir.rglob("*.md"))
validate_cross_references ==
  /\ vpc = "crossrefs"
  /\ unchecked' = mdFiles
  /\ vpc' = "crossrefs_files"
  /\ UNCHANGED <<args, dirExists, docFiles, docMtime, srcFiles, srcMtime,
                 errors, warnings, info_messages, exited>>
  /\ UNCHANGED <<mdFiles, content, repoFiles>>
  /\ UNCHANGED agentVars

\* check_file_references(md_file, valid_targets) on a file that is read.
check_file_references ==
  /\ vpc = "crossrefs_files"
  /\ \E md_file \in unchecked :
       /\ errors' = errors \o InvalidReferences(md_file, content[md_file],
                                                Len(content[md_file]), ValidTargets(mdFiles))
       /\ unchecked' = unchecked \ {md_file}
  /\ UNCHANGED <<vpc, args, dirExists, docFiles, docMtime, srcFiles, srcMtime,
                 warnings, info_messages, exited>>
  /\ UNCHANGED <<mdFiles, content, repoFiles>>
  /\ UNCHANGED agentVars

\* check_file_references on a file whose read_text raises.
check_file_references_unreadable ==
  /\ vpc = "crossrefs_files"
  /\ \E md_file \in unchecked :
       /\ errors' = Append(errors, Message("Could not read", md_file, md_file))
       /\ unchecked' = unchecked \ {md_file}
  /\ UNCHANGED <<vpc, args, dirExists, docFiles, docMtime, srcFiles, srcMtime,
                 warnings, info_messages, exited>>
  /\ UNCHANGED <<mdFiles, content, repoFiles>>
  /\ UNCHANGED agentVars

\* The loop over md_files has ended.
validate_cross_references_return ==
  /\ vpc = "crossrefs_files"
  /\ unchecked = {}
  /\ vpc' = "crossrefs_done"
  /\ UNCHANGED <<args, dirExists, docFiles, docMtime, srcFiles, srcMtime,
                 errors, warnings, info_messages, exited>>
  /\ UNCHANGED linkVars
  /\ UNCHANGED agentVars

LinksNext ==
  \/ validate_cross_references
  \/ check_file_references
  \/ check_file_references_unreadable
  \/ validate_cross_references_return

LinksSpec == LinksInit /\ [][LinksNext]_vars

\* ------------------------------------------------------------------ claims

\* Metrics objects whose task has run to its end, logged or raised.
Finished == {log[i].m : i \in 1..Len(log)} \cup {raised[i] : i \in 1..Len(raised)}

\* The field set of a stage's export record (the names the handlers print).
StageFields(stage) == DirectAttrs(stage) \cup GetattrAttrs(stage)

\* The metrics object has every attribute its handler reads as metrics.<name>.
HasDirectAttrs(m) == \A a \in DirectAttrs(m.stage) : HasAttr(m, a)

TimestampOf(m) == AttrValue(m, "timestamp")

C5_PerIdOrder ==
  \A i, j \in 1..Len(log) :
    (i < j /\ log[i].m.id = log[j].m.id) => log[i].m.n < log[j].m.n

\* C5 witness: two records of one correlation id, from different stages, are
\* both logged.
C5_TwoRecordsSameId ==
  \E i, j \in 1..Len(log) :
    i < j /\ log[i].m.id = log[j].m.id /\ log[i].m.stage # log[j].m.stage

\* C6, as stated: every LLM, STT, end-of-utterance and TTS metric event whose
\* task has run produced a record (none was lost), the record has every field
\* of the stage's field set, and a field absent on the event reads None.
C6_OneFullRecordPerEvent ==
  /\ raised = << >>
  /\ \A i \in 1..Len(log) :
       /\ DOMAIN log[i].fields = StageFields(log[i].m.stage)
       /\ \A f \in StageFields(log[i].m.stage) :
            ~HasAttr(log[i].m, f) => log[i].fields[f] = Text("str_none", 0)

C11_ExitStatus ==
  exited # << >> =>
    LET clean == /\ dirExists
                 /\ ~(args.update_timestamps /\ ~args.check_timestamps)
                 /\ errors = << >>
                 /\ (args.strict => warnings = << >>)
    IN exited = IF clean THEN <<0>> ELSE <<1>>

\* C11 witness: a run under --strict with a warning and no error has exited
\* with status 1.
C11_StrictWarningExit ==
  /\ exited = <<1>>
  /\ vpc = "exited"
  /\ args.strict
  /\ errors = << >>
  /\ warnings # << >>

\* C12: in every step, a documentation file's modification time changes only
\* if --update-timestamps and --check-timestamps are both set, the error list
\* is empty after the step (all checks, the timestamp check included, have
\* run), and the file exists and was older than a source file mapped to it.
C12_TouchOnlyWhenClean ==
  [][\A d \in DOMAIN docMtime :
       docMtime'[d] # docMtime[d] =>
         /\ args.update_timestamps /\ args.check_timestamps
         /\ vpc = "timestamps"
         /\ errors' = << >>
         /\ d \in docFiles
         /\ \E i \in 1..Len(source_to_doc_mapping) :
              /\ source_to_doc_mapping[i][2] = d
              /\ source_to_doc_mapping[i][1] \in srcFiles
              /\ docMtime[d] < srcMtime[source_to_doc_mapping[i][1]]]_vars

\* C12 witness: a documentation file was touched (its time is the time of
\* the update) in a run that recorded a warning and no error.
C12_DocTouched ==
  /\ \E d \in docFiles : docMtime[d] = CurrentTime
  /\ errors = << >>
  /\ warnings # << >>

\* The messages of msgs after its first n that name the pair (src, doc).
PairMessages(msgs, n, src, doc) ==
  {k \in (n + 1)..Len(msgs) : msgs[k].src = src /\ msgs[k].doc = doc}

\* C14: in the step that runs validate_timestamps, for each pair whose source
\* and documentation file both exist: if the documentation file is older,
\* exactly one message naming the pair is recorded, an error when
\* strict_timestamps is set or the file is more than 7 days older, otherwise
\* a warning; if it is not older, no error and no warning names the pair and
\* one info message does.
C14_OneMessagePerPair ==
  [][(vpc = "timestamps" /\ args.check_timestamps) =>
       \A i \in 1..Len(source_to_doc_mapping) :
         LET src == source_to_doc_mapping[i][1]
             doc == source_to_doc_mapping[i][2]
             errs == PairMessages(errors', Len(errors), src, doc)
             warns == PairMessages(warnings', Len(warnings), src, doc)
             infos == PairMessages(info_messages', Len(info_messages), src, doc)
         IN
         (src \in srcFiles /\ doc \in docFiles) =>
           IF docMtime[doc] < srcMtime[src]
           THEN /\ Cardinality(errs) + Cardinality(warns) = 1
                /\ Cardinality(errs) = 1 <=>
                     (args.strict_timestamps
                        \/ srcMtime[src] - docMtime[doc] > 7 * 24 * 3600)
                /\ infos = {}
           ELSE /\ errs = {} /\ warns = {}
                /\ Cardinality(infos) = 1]_vars

\* C14 witness: validate_timestamps has run without strict_timestamps and
\* recorded an outdated-documentation warning for a pair exactly 7 days apart.
C14_SevenDaysIsWarning ==
  /\ vpc = "results"
  /\ ~args.strict_timestamps
  /\ \E k \in 1..Len(warnings) :
       /\ warnings[k].kind = "Documentation outdated"
       /\ srcMtime[warnings[k].src] - DocTime = 7 * 24 * 3600

\* The directory a chain of segments leads to from dir: ".." leaves the
\* last directory.
RECURSIVE Normalize(_, _)
Normalize(dir, segs) ==
  IF segs = << >> THEN dir
  ELSE IF Head(segs) = ".."
       THEN Normalize(IF dir = << >> THEN dir ELSE SubSeq(dir, 1, Len(dir) - 1), Tail(segs))
       ELSE Normalize(Append(dir, Head(segs)), Tail(segs))

\* The link target, read relative to the directory of the file that holds
\* the link, is a file of the repository; a target without suffix may also
\* name the .md file.
TargetExists(source_file, target) ==
  LET dir == Normalize(<<"docs">> \o source_file.dir, target.dir) IN
    \/ Path(dir, target.stem, target.md) \in repoFiles
    \/ Path(dir, target.stem, TRUE) \in repoFiles

\* C13, as stated: when validate_cross_references has ended without an
\* error, every markdown link of every file under docs whose target is not
\* external (http, https, mailto, #) points to a file that exists.  Stated
\* for the links the link pattern finds, those with a non-empty text.
C13_NoErrorMeansLinksResolve ==
  (vpc = "crossrefs_done" /\ errors = << >>) =>
    \A f \in mdFiles : \A k \in 1..Len(content[f]) :
      (MatchesLinkPattern(content[f][k]) /\ ~IsExternal(content[f][k])) =>
        TargetExists(f, CleanTarget(content[f][k]))

====
